---- MODULE Spec2Model ----
(***************************************************************************)
(* Tamper detection and recovery for a single record: the express record   *)
(* store (current record + backup history) and the React integrity client  *)
(* of src/client/src/App.tsx.                                              *)
(***************************************************************************)
EXTENDS Integers, Sequences, FiniteSets, Bags, TLC

(* ------------------------------ bounds --------------------------------- *)

\* Longest backup history explored (database.history grows without limit).
MaxHistory == 2

\* Latest instant new Date() returns in the explored runs (instants 0..MaxClock).
MaxClock == 0

\* Most handler invocations of one client suspended at the same time (clicks
\* are never refused: the buttons stay enabled while a handler runs).
MaxCalls == 2

\* Most requests of other callers handled while the browser client runs.
MaxOthers == 2

(* ------------------------------ values --------------------------------- *)

\* The browser client followed; every other client of the store is one of
\* the callers of its HTTP surface.
Clients == {"c1"}

\* Payloads callers submit; "Hello World" is the initial record,
\* "Tampered Data!" the payload of the fault injection.
Strings == {"Hello World", "Updated", "Tampered Data!"}

\* The JavaScript value undefined (what destructuring a missing key yields),
\* a token outside Strings.
undefined == "<undefined>"

\* What the user types into the input in the explored runs.
Typed == {"Hello World", "Updated"}

\* Everything generateHash is applied to.
HashInputs == Strings \cup {""}

\* SHA-256 of the UTF-8 bytes of each input, as the 32 bytes of the digest.
Sha256 ==
  [s \in HashInputs |->
     CASE s = "" ->
            <<227, 176, 196, 66, 152, 252, 28, 20, 154, 251, 244, 200, 153, 111,
              185, 36, 39, 174, 65, 228, 100, 155, 147, 76, 164, 149, 153, 27,
              120, 82, 184, 85>>
       [] s = "Hello World" ->
            <<165, 145, 166, 212, 11, 244, 32, 64, 74, 1, 23, 51, 207, 183, 177,
              144, 214, 44, 101, 191, 11, 205, 163, 43, 87, 178, 119, 217, 173,
              159, 20, 110>>
       [] s = "Updated" ->
            <<58, 94, 204, 161, 136, 192, 87, 156, 0, 238, 36, 207, 60, 171, 33,
              189, 2, 193, 90, 6, 247, 167, 12, 200, 224, 168, 255, 35, 129, 220,
              187, 253>>
       [] s = "Tampered Data!" ->
            <<83, 220, 178, 157, 122, 192, 93, 120, 112, 195, 143, 98, 41, 121,
              168, 120, 155, 187, 96, 65, 134, 92, 147, 245, 146, 51, 169, 148,
              186, 13, 237, 150>>]

\* Number.prototype.toString(16) of one hex digit.
HexDigit(n) ==
  CASE n = 0 -> "0" [] n = 1 -> "1" [] n = 2 -> "2" [] n = 3 -> "3"
    [] n = 4 -> "4" [] n = 5 -> "5" [] n = 6 -> "6" [] n = 7 -> "7"
    [] n = 8 -> "8" [] n = 9 -> "9" [] n = 10 -> "a" [] n = 11 -> "b"
    [] n = 12 -> "c" [] n = 13 -> "d" [] n = 14 -> "e" [] n = 15 -> "f"

\* byte.toString(16): no leading zero.
ToString16(byte) ==
  IF byte < 16 THEN HexDigit(byte)
  ELSE HexDigit(byte \div 16) \o HexDigit(byte % 16)

\* s.padStart(2, "0").
PadStart2(s) == IF Len(s) < 2 THEN "0" \o s ELSE s

RECURSIVE Join(_)
\* Array.prototype.join("") of a sequence of strings.
Join(parts) == IF parts = <<>> THEN "" ELSE Head(parts) \o Join(Tail(parts))

\* The digest of every input rendered as lowercase hex, byte by byte.
HexTable ==
  [s \in HashInputs |->
     Join([i \in 1..Len(Sha256[s]) |-> PadStart2(ToString16(Sha256[s][i]))])]

\* Server: crypto.createHash("sha256").update(data).digest("hex").
generateHash(data) == HexTable[data]

\* Client: TextEncoder.encode(input) (undefined encodes as the empty string),
\* crypto.subtle.digest("SHA-256"), bytes mapped to two hex digits and joined.
clientGenerateHash(input) ==
  HexTable[IF input = undefined THEN "" ELSE input]

\* Payloads a POST / may carry: any string, or none when the body has no
\* data key.
Payloads == HashInputs \cup {undefined}

\* Digests a caller of POST / may claim.
Digests == {generateHash(s) : s \in HashInputs}

(* --------------------------- response texts ---------------------------- *)

IntegrityCorrupted == "Current data integrity check failed. Update aborted."
HashMismatch == "Hash mismatch. Data integrity check failed."
NoBackupAvailable == "No backup available."

\* What express's default error handler answers, with status 500, when a
\* handler throws; the body is not JSON and the client reads none of it.
InternalServerError == "Internal Server Error"

(* ------------------------------- state --------------------------------- *)

VARIABLES
  database,   \* [current: [data, integrity], history: Seq([data, integrity, timestamp])]
  clock,      \* the latest instant new Date() has returned
  data,       \* data[c]: the React state `data` of client c (its local copy)
  calls,      \* calls[c]: the bag of handler invocations of c suspended at a fetch
  resp,       \* the last HTTP response the server sent
  tampered,   \* POST /tamper handled since startup / the last successful restore
  gens,       \* the records replaced by the successful writes not yet rolled back
  others      \* requests of other callers handled so far, counted up to MaxOthers

vars == <<database, clock, data, calls, resp, tampered, gens, others>>

(* ------------------------------ server --------------------------------- *)

\* const database = {...}; database.current.integrity = generateHash(...).
InitDatabase ==
  [current |-> [data |-> "Hello World", integrity |-> generateHash("Hello World")],
   history |-> <<>>]

\* A handler's outcome: the database it leaves, the status and the JSON body.
Reply(db, status, body) == [db |-> db, status |-> status, body |-> body]

\* Faulty variant of app.get("/"): the binding is validated on read and a
\* corrupt record is refused.
GetRoot_Validating(db) ==
  IF generateHash(db.current.data) # db.current.integrity
    THEN Reply(db, 400, [error |-> IntegrityCorrupted])
  ELSE Reply(db, 200, db.current)

\* app.get("/"): res.json(database.current).
GetRoot(db) == Reply(db, 200, db.current)

\* Faulty variant of app.post("/"): the stored integrity is not refreshed
\* (currentHash is written where computedHash belongs).
PostRoot_StaleIntegrity(db, newData, hash, now) ==
  LET currentHash == generateHash(db.current.data)
      computedHash == generateHash(newData)
  IN  IF currentHash # db.current.integrity
        THEN Reply(db, 400, [error |-> IntegrityCorrupted])
      ELSE IF newData = undefined
        THEN Reply(db, 500, [error |-> InternalServerError])
      ELSE IF computedHash # hash
        THEN Reply(db, 400, [error |-> HashMismatch])
      ELSE Reply([current |-> [data |-> newData, integrity |-> currentHash],
                  history |-> Append(db.history,
                                     [data |-> db.current.data,
                                      integrity |-> db.current.integrity,
                                      timestamp |-> now])],
                 200, [message |-> "Data updated successfully."])

\* Faulty variant of app.post("/"): history.push runs after the update, so
\* the new record is archived instead of the one it replaces.
PostRoot_PushAfterUpdate(db, newData, hash, now) ==
  LET currentHash == generateHash(db.current.data)
      computedHash == generateHash(newData)
  IN  IF currentHash # db.current.integrity
        THEN Reply(db, 400, [error |-> IntegrityCorrupted])
      ELSE IF newData = undefined
        THEN Reply(db, 500, [error |-> InternalServerError])
      ELSE IF computedHash # hash
        THEN Reply(db, 400, [error |-> HashMismatch])
      ELSE Reply([current |-> [data |-> newData, integrity |-> computedHash],
                  history |-> Append(db.history,
                                     [data |-> newData,
                                      integrity |-> computedHash,
                                      timestamp |-> now])],
                 200, [message |-> "Data updated successfully."])

\* Faulty variant of app.post("/"): the claimed hash is never compared.
PostRoot_NoHashCheck(db, newData, hash, now) ==
  LET currentHash == generateHash(db.current.data)
      computedHash == generateHash(newData)
  IN  IF currentHash # db.current.integrity
        THEN Reply(db, 400, [error |-> IntegrityCorrupted])
      ELSE IF newData = undefined
        THEN Reply(db, 500, [error |-> InternalServerError])
      ELSE Reply([current |-> [data |-> newData, integrity |-> computedHash],
                  history |-> Append(db.history,
                                     [data |-> db.current.data,
                                      integrity |-> db.current.integrity,
                                      timestamp |-> now])],
                 200, [message |-> "Data updated successfully."])

\* Faulty variant of app.post("/"): the current record is never re-hashed.
PostRoot_NoCurrentCheck(db, newData, hash, now) ==
  LET computedHash == generateHash(newData)
  IN  IF newData = undefined
        THEN Reply(db, 500, [error |-> InternalServerError])
      ELSE IF computedHash # hash
        THEN Reply(db, 400, [error |-> HashMismatch])
      ELSE Reply([current |-> [data |-> newData, integrity |-> computedHash],
                  history |-> Append(db.history,
                                     [data |-> db.current.data,
                                      integrity |-> db.current.integrity,
                                      timestamp |-> now])],
                 200, [message |-> "Data updated successfully."])

\* app.post("/") with req.body = {data, hash}, new Date() returning `now`.
\* A body without the data key leaves `data` undefined: once the current
\* record has passed its check, generateHash(undefined) throws a TypeError
\* and express answers 500.
PostRoot(db, newData, hash, now) ==
  LET currentHash == generateHash(db.current.data)
      computedHash == generateHash(newData)
  IN  IF currentHash # db.current.integrity
        THEN Reply(db, 400, [error |-> IntegrityCorrupted])
      ELSE IF newData = undefined
        THEN Reply(db, 500, [error |-> InternalServerError])
      ELSE IF computedHash # hash
        THEN Reply(db, 400, [error |-> HashMismatch])
      ELSE Reply([current |-> [data |-> newData, integrity |-> computedHash],
                  history |-> Append(db.history,
                                     [data |-> db.current.data,
                                      integrity |-> db.current.integrity,
                                      timestamp |-> now])],
                 200, [message |-> "Data updated successfully."])

\* Faulty variant of app.get("/backup"): without the length test pop() yields
\* undefined on an empty history and the handler falls through to its 500.
GetBackup_NoEmptyCheck(db) ==
  IF Len(db.history) = 0
    THEN Reply(db, 500, [error |-> "Failed to restore backup."])
  ELSE LET previous == db.history[Len(db.history)]
           restored == [data |-> previous.data, integrity |-> previous.integrity]
       IN  Reply([current |-> restored,
                  history |-> SubSeq(db.history, 1, Len(db.history) - 1)],
                 200,
                 [message |-> "Backup restored successfully.", current |-> restored])

\* Faulty variant of app.get("/backup"): history.shift() takes the oldest entry.
GetBackup_Shift(db) ==
  IF Len(db.history) = 0
    THEN Reply(db, 404, [error |-> NoBackupAvailable])
  ELSE LET previous == db.history[1]
           restored == [data |-> previous.data, integrity |-> previous.integrity]
       IN  Reply([current |-> restored,
                  history |-> SubSeq(db.history, 2, Len(db.history))],
                 200,
                 [message |-> "Backup restored successfully.", current |-> restored])

\* Faulty variant of app.get("/backup"): only the data of the entry is restored.
GetBackup_DataOnly(db) ==
  IF Len(db.history) = 0
    THEN Reply(db, 404, [error |-> NoBackupAvailable])
  ELSE LET previous == db.history[Len(db.history)]
           restored == [data |-> previous.data, integrity |-> db.current.integrity]
       IN  Reply([current |-> restored,
                  history |-> SubSeq(db.history, 1, Len(db.history) - 1)],
                 200,
                 [message |-> "Backup restored successfully.", current |-> restored])

\* Faulty variant of app.get("/backup"): the last entry is read, not popped.
GetBackup_Peek(db) ==
  IF Len(db.history) = 0
    THEN Reply(db, 404, [error |-> NoBackupAvailable])
  ELSE LET previous == db.history[Len(db.history)]
           restored == [data |-> previous.data, integrity |-> previous.integrity]
       IN  Reply([current |-> restored, history |-> db.history],
                 200,
                 [message |-> "Backup restored successfully.", current |-> restored])

\* app.get("/backup"): history.pop() becomes the current record.
GetBackup(db) ==
  IF Len(db.history) = 0
    THEN Reply(db, 404, [error |-> NoBackupAvailable])
  ELSE LET previous == db.history[Len(db.history)]
           restored == [data |-> previous.data, integrity |-> previous.integrity]
       IN  Reply([current |-> restored,
                  history |-> SubSeq(db.history, 1, Len(db.history) - 1)],
                 200,
                 [message |-> "Backup restored successfully.", current |-> restored])

\* app.post("/tamper"): database.current.data = "Tampered Data!".
PostTamper(db) ==
  Reply([db EXCEPT !.current.data = "Tampered Data!"], 200,
        [message |-> "Data has been tampered with!"])

(* ------------------------- client operators --------------------------- *)

\* Destructuring one key of a parsed JSON body: a missing key is undefined.
Field(body, key) == IF key \in DOMAIN body THEN body[key] ELSE undefined

\* response.ok
Ok(status) == status >= 200 /\ status <= 299

\* Faulty variant of verifyData's condition: the local hash alone is compared.
Intact_TwoWay(serverHash, localHash, serverDataHash) ==
  serverHash = localHash

\* The condition of verifyData's if: both hashes equal the asserted one.
Intact(serverHash, localHash, serverDataHash) ==
  serverHash = localHash /\ serverHash = serverDataHash

(* ------------------------------ ghosts --------------------------------- *)

\* What an invocation remembers of the store it met: `valid` while no other
\* request has changed the database since, `db` the database its
\* verification fetched, `corrupt` whether that database was corrupt.
NoSnap == [valid |-> FALSE, db |-> InitDatabase, corrupt |-> FALSE]

\* The record is corrupt: its stored digest is not the digest of its payload.
Corrupt(db) == db.current.integrity # generateHash(db.current.data)

\* The server handles one request of `who` on `route` with outcome r.
Served(who, route, r) ==
  /\ database' = r.db
  /\ resp' = [route |-> route, status |-> r.status, body |-> r.body]
  /\ tampered' = IF route = "POST /tamper" THEN TRUE
                 ELSE IF route = "GET /backup" /\ r.status = 200 THEN FALSE
                 ELSE tampered
  /\ gens' = IF route = "POST /" /\ r.status = 200
               THEN Append(gens, database.current)
             ELSE IF route = "GET /backup" /\ r.status = 200
               THEN SubSeq(gens, 1, Len(gens) - 1)
             ELSE gens

\* An invocation whose snapshot ended: only whether its verification fetched
\* a corrupt record is remembered until its flow ends.
Lose(t) == [t EXCEPT !.snap = [NoSnap EXCEPT !.corrupt = t.snap.corrupt]]

\* The suspended invocations B once a request with outcome r was handled:
\* their snapshots end when the database was changed under them.
Disturb(B, r) ==
  IF r.db = database THEN B
  ELSE LET lost == {Lose(t) : t \in DOMAIN B}
       IN  [u \in lost |->
              BagCardinality([t \in {x \in DOMAIN B : Lose(x) = u} |-> B[t]])]

(* ------------------------------ client --------------------------------- *)

\* No response yet.
NoReply == [status |-> 0, body |-> [message |-> ""]]

\* An invocation of the async function fn, called within the handler `flow`
\* and suspended at its fetch: arg is the `data` of the render the handler
\* closed over, where fn goes on to use it.
Call(flow, fn, arg, snap) ==
  [flow |-> flow, fn |-> fn, at |-> "sent", arg |-> arg, got |-> NoReply,
   snap |-> snap]

\* Invocation t of client c is suspended with its request not yet handled.
Pending(c, t) == BagIn(t, calls[c]) /\ t.at = "sent"

\* Invocation t of client c is suspended with its response on the way back.
Delivered(c, t) == BagIn(t, calls[c]) /\ t.at = "answered"

\* The server has handled the request of invocation t of client c with
\* outcome r: the response travels back to t.
Respond(c, t, r, snap) ==
  calls' = [k \in Clients |->
              IF k = c
                THEN Disturb(calls[k] (-) SetToBag({t}), r)
                       (+) SetToBag({[t EXCEPT
                              !.at = "answered",
                              !.arg = IF t.fn = "verifyData" THEN t.arg ELSE "",
                              !.got = [status |-> r.status, body |-> r.body],
                              !.snap = snap]})
              ELSE Disturb(calls[k], r)]

\* Invocation t of client c returns.
Return(c, t) == calls' = [calls EXCEPT ![c] = calls[c] (-) SetToBag({t})]

\* Invocation t of client c goes on to call fn, which suspends at its fetch.
Await(c, t, fn) ==
  calls' = [calls EXCEPT
              ![c] = (calls[c] (-) SetToBag({t}))
                       (+) SetToBag({Call(t.flow, fn, "", t.snap)})]

(* ------------------------------ actions -------------------------------- *)

\* The state once the component has mounted: useEffect has called getData.
Init ==
  /\ database = InitDatabase
  /\ clock = 0
  /\ data = [c \in Clients |-> ""]
  /\ calls = [c \in Clients |-> SetToBag({Call("useEffect", "getData", "", NoSnap)})]
  /\ resp = [route |-> "", status |-> 0, body |-> [message |-> ""]]
  /\ tampered = FALSE
  /\ gens = <<>>
  /\ others = 0

\* The server handles the GET / of a getData or verifyData of client c.
ServeGet(c, t) ==
  /\ Pending(c, t)
  /\ t.fn \in {"getData", "verifyData"}
  /\ LET r == GetRoot(database)
     IN  /\ Served(c, "GET /", r)
         /\ Respond(c, t, r,
                    IF t.fn = "verifyData"
                      THEN [valid |-> TRUE, db |-> database,
                            corrupt |-> Corrupt(database)]
                    ELSE t.snap)
  /\ UNCHANGED <<clock, data, others>>

\* The server handles the POST / of an updateData of client c: the body is
\* JSON.stringify({data, hash}) of the render the click happened in, which
\* has no data key when that `data` was undefined.
ServePost(c, t) ==
  /\ Pending(c, t)
  /\ t.fn = "updateData"
  /\ \E now \in clock..MaxClock :
       LET hash == clientGenerateHash(t.arg)
           r == PostRoot(database, t.arg, hash, now)
       IN  /\ Ok(r.status) => Len(database.history) < MaxHistory
           /\ Served(c, "POST /", r)
           /\ clock' = IF Ok(r.status) THEN now ELSE clock
           /\ Respond(c, t, r,
                      IF Ok(r.status) THEN [NoSnap EXCEPT !.valid = TRUE]
                      ELSE NoSnap)
  /\ UNCHANGED <<data, others>>

\* The server handles the GET /backup of a restoreBackup of client c.
ServeBackup(c, t) ==
  /\ Pending(c, t)
  /\ t.fn = "restoreBackup"
  /\ LET r == GetBackup(database)
     IN  /\ Served(c, "GET /backup", r)
         /\ Respond(c, t, r, t.snap)
  /\ UNCHANGED <<clock, data, others>>

\* getData resumes with its response: setData(data) of the parsed body.
GetDataResume(c, t) ==
  /\ Delivered(c, t)
  /\ t.fn = "getData"
  /\ data' = [data EXCEPT ![c] = Field(t.got.body, "data")]
  /\ Return(c, t)
  /\ UNCHANGED <<database, clock, resp, tampered, gens, others>>

\* The input's onChange: setData(e.target.value).
OnChange(c, value) ==
  /\ data' = [data EXCEPT ![c] = value]
  /\ UNCHANGED <<database, clock, calls, resp, tampered, gens, others>>

\* A click on Update Data: updateData hashes the `data` of the current
\* render and suspends at its POST /. The buttons are never disabled.
UpdateData(c) ==
  /\ BagCardinality(calls[c]) < MaxCalls
  /\ calls' = [calls EXCEPT
                 ![c] = calls[c] (+) SetToBag({Call("updateData", "updateData",
                                                    data[c], NoSnap)})]
  /\ UNCHANGED <<database, clock, data, resp, tampered, gens, others>>

\* Faulty variant of updateData's continuation: getData runs whatever the
\* response was.
UpdateDataResume_AlwaysRefresh(c, t) ==
  /\ Delivered(c, t)
  /\ t.fn = "updateData"
  /\ Await(c, t, "getData")
  /\ UNCHANGED <<database, clock, data, resp, tampered, gens, others>>

\* updateData resumes with its response: the branch on response.ok.
UpdateDataResume(c, t) ==
  /\ Delivered(c, t)
  /\ t.fn = "updateData"
  /\ IF Ok(t.got.status) THEN Await(c, t, "getData") ELSE Return(c, t)
  /\ UNCHANGED <<database, clock, data, resp, tampered, gens, others>>

\* A click on Verify Data: verifyData suspends at its GET /, closed over the
\* `data` of the current render.
VerifyData(c) ==
  /\ BagCardinality(calls[c]) < MaxCalls
  /\ calls' = [calls EXCEPT
                 ![c] = calls[c] (+) SetToBag({Call("verifyData", "verifyData",
                                                    data[c], NoSnap)})]
  /\ UNCHANGED <<database, clock, data, resp, tampered, gens, others>>

\* verifyData resumes with its response: the two hashes, the three-way
\* comparison, then the alert that no tampering was detected and the
\* return, or the alert of tampering and the call of restoreBackup.
VerifyDataResume(c, t) ==
  /\ Delivered(c, t)
  /\ t.fn = "verifyData"
  /\ LET serverData == Field(t.got.body, "data")
         serverHash == Field(t.got.body, "integrity")
         localHash == clientGenerateHash(t.arg)
         serverDataHash == clientGenerateHash(serverData)
         intact == Intact(serverHash, localHash, serverDataHash)
     IN  IF intact THEN Return(c, t) ELSE Await(c, t, "restoreBackup")
  /\ UNCHANGED <<database, clock, data, resp, tampered, gens, others>>

\* Faulty variant of restoreBackup's continuation: the return after the
\* failure alert is missing, so the body is destructured and getData runs
\* all the same.
RestoreBackupResume_NoReturn(c, t) ==
  /\ Delivered(c, t)
  /\ t.fn = "restoreBackup"
  /\ data' = [data EXCEPT ![c] = Field(t.got.body, "data")]
  /\ Await(c, t, "getData")
  /\ UNCHANGED <<database, clock, resp, tampered, gens, others>>

\* restoreBackup resumes with its response: the branch on backupResponse.ok,
\* setData(backupData) and the call of getData.
RestoreBackupResume(c, t) ==
  /\ Delivered(c, t)
  /\ t.fn = "restoreBackup"
  /\ IF Ok(t.got.status)
       THEN /\ data' = [data EXCEPT ![c] = Field(t.got.body, "data")]
            /\ Await(c, t, "getData")
     ELSE /\ data' = data
          /\ Return(c, t)
  /\ UNCHANGED <<database, clock, resp, tampered, gens, others>>

\* One more request of another caller has been handled.
OtherServed == others' = IF others < MaxOthers THEN others + 1 ELSE others

\* Any caller's GET /.
Read ==
  /\ LET r == GetRoot(database)
     IN  /\ Served("caller", "GET /", r)
         /\ calls' = [c \in Clients |-> Disturb(calls[c], r)]
  /\ UNCHANGED <<clock, data>>
  /\ OtherServed

\* Any caller's POST / with an arbitrary payload and claimed digest.
Write(newData, hash) ==
  /\ \E now \in clock..MaxClock :
       LET r == PostRoot(database, newData, hash, now)
       IN  /\ Ok(r.status) => Len(database.history) < MaxHistory
           /\ Served("caller", "POST /", r)
           /\ clock' = IF Ok(r.status) THEN now ELSE clock
           /\ calls' = [c \in Clients |-> Disturb(calls[c], r)]
  /\ UNCHANGED <<data>>
  /\ OtherServed

\* Any caller's GET /backup.
Restore ==
  /\ LET r == GetBackup(database)
     IN  /\ Served("caller", "GET /backup", r)
         /\ calls' = [c \in Clients |-> Disturb(calls[c], r)]
  /\ UNCHANGED <<clock, data>>
  /\ OtherServed

\* The fault injection: any caller's POST /tamper.
Tamper ==
  /\ LET r == PostTamper(database)
     IN  /\ Served("caller", "POST /tamper", r)
         /\ calls' = [c \in Clients |-> Disturb(calls[c], r)]
  /\ UNCHANGED <<clock, data>>
  /\ OtherServed

\* One event of the browser client c: a keystroke, a click, or one of its
\* suspended invocations resuming with its response.
ClientStep(c) ==
  \/ \E value \in Typed : OnChange(c, value)
  \/ UpdateData(c)
  \/ VerifyData(c)
  \/ \E t \in BagToSet(calls[c]) : GetDataResume(c, t)
  \/ \E t \in BagToSet(calls[c]) : UpdateDataResume(c, t)
  \/ \E t \in BagToSet(calls[c]) : VerifyDataResume(c, t)
  \/ \E t \in BagToSet(calls[c]) : RestoreBackupResume(c, t)

\* The server handles one request of the browser client c.
ServerStep(c) ==
  \/ \E t \in BagToSet(calls[c]) : ServeGet(c, t)
  \/ \E t \in BagToSet(calls[c]) : ServePost(c, t)
  \/ \E t \in BagToSet(calls[c]) : ServeBackup(c, t)

\* One request of any other HTTP caller.
CallerStep ==
  \/ Read
  \/ \E newData \in Payloads, hash \in Digests : Write(newData, hash)
  \/ Restore
  \/ Tamper

\* One request of another caller while the browser client runs.
OtherStep ==
  \/ others < MaxOthers /\ Read
  \/ \E newData \in Payloads, hash \in Digests :
       others < MaxOthers /\ Write(newData, hash)
  \/ others < MaxOthers /\ Restore
  \/ others < MaxOthers /\ Tamper

\* The browser client, the server handling its requests, and the requests
\* of the other callers, which may arrive between any two of those steps.
Next ==
  \/ \E c \in Clients : ClientStep(c) \/ ServerStep(c)
  \/ OtherStep

Spec == Init /\ [][Next]_vars

\* The record store under arbitrary callers of its HTTP surface, as many
\* requests as they like, the browser clients' requests among them.
NextStore == CallerStep

SpecStore == Init /\ [][NextStore]_vars

(* ------------------------------ claims --------------------------------- *)

\* A POST / carrying {data: d, hash: h} is handled, whoever sent it.
WriteStep(d, h) ==
  \/ Write(d, h)
  \/ \E c \in Clients : \E t \in BagToSet(calls[c]) :
       ServePost(c, t) /\ t.arg = d /\ h = clientGenerateHash(d)

\* A GET /backup is handled, whoever sent it.
RestoreStep ==
  \/ Restore
  \/ \E c \in Clients : \E t \in BagToSet(calls[c]) : ServeBackup(c, t)

\* A GET / is handled, whoever sent it.
ReadStep ==
  \/ Read
  \/ \E c \in Clients : \E t \in BagToSet(calls[c]) : ServeGet(c, t)

\* The last response is the one of `route` with `status`.
Answered(route, status) == resp.route = route /\ resp.status = status

\* A history entry as a record {data, integrity}.
AsRecord(entry) == [data |-> entry.data, integrity |-> entry.integrity]

\* C1: whenever a Write(d, Hash(d)) succeeds, a Read immediately afterwards
\* returns data = d and integrity = Hash(d).
C1_ReadAfterWrite ==
  [][\A d \in HashInputs, h \in Digests :
       (WriteStep(d, h) /\ h = generateHash(d) /\ Ok(resp'.status))
         => GetRoot(database').body = [data |-> d, integrity |-> generateHash(d)]]_vars

\* C1 witness: a write of "Updated" has just succeeded.
C1_Witness ==
  Answered("POST /", 200) /\ database.current.data = "Updated"

\* C2: a successful Write lengthens the history by exactly one entry, which
\* carries the data and integrity of the record it replaced, and leaves the
\* earlier entries as they were.
C2_WriteArchivesPrevious ==
  [][\A d \in HashInputs, h \in Digests :
       (WriteStep(d, h) /\ Ok(resp'.status))
         => /\ Len(database'.history) = Len(database.history) + 1
            /\ AsRecord(database'.history[Len(database'.history)]) = database.current
            /\ SubSeq(database'.history, 1, Len(database.history)) = database.history]_vars

\* C2 witness: a write has just succeeded on top of an earlier backup.
C2_Witness ==
  Answered("POST /", 200) /\ Len(database.history) = 2

\* C3 as stated: in every state a Write whose claimed digest is not the
\* digest of its payload fails with HashMismatch and changes nothing.
C3_Original ==
  [][\A d \in HashInputs, h \in Digests :
       (WriteStep(d, h) /\ h # generateHash(d))
         => /\ resp'.status = 400
            /\ Field(resp'.body, "error") = HashMismatch
            /\ database' = database]_vars

\* C3 amended: a Write whose claimed digest is not the digest of its payload
\* is rejected and changes neither the current record nor the history; the
\* failure is HashMismatch when the current record is consistent and
\* IntegrityCorrupted when it is corrupt.
C3_MismatchRejected ==
  [][\A d \in HashInputs, h \in Digests :
       (WriteStep(d, h) /\ h # generateHash(d))
         => /\ resp'.status = 400
            /\ Field(resp'.body, "error") =
                 (IF Corrupt(database) THEN IntegrityCorrupted ELSE HashMismatch)
            /\ database' = database]_vars

\* C3 witness: a write has just been rejected with HashMismatch.
C3_Witness ==
  Answered("POST /", 400) /\ Field(resp.body, "error") = HashMismatch

\* C4: while the current record is corrupt every Write, whatever its payload
\* and claimed digest, fails with IntegrityCorrupted and changes neither the
\* current record nor the history.
C4_CorruptRejectsWrites ==
  [][\A d \in Payloads, h \in Digests :
       (WriteStep(d, h) /\ Corrupt(database))
         => /\ resp'.status = 400
            /\ Field(resp'.body, "error") = IntegrityCorrupted
            /\ database' = database]_vars

\* C4 witness: a write has just been rejected on a corrupt record.
C4_Witness ==
  /\ Answered("POST /", 400)
  /\ Field(resp.body, "error") = IntegrityCorrupted
  /\ Corrupt(database)

\* C5: a Restore on an empty history fails with NoBackupAvailable and leaves
\* the current record and the empty history as they were, corrupt or not.
C5_RestoreEmptyFails ==
  [][(RestoreStep /\ database.history = <<>>)
       => /\ resp'.status = 404
          /\ Field(resp'.body, "error") = NoBackupAvailable
          /\ database' = database]_vars

\* C5 witness: a restore has just failed while the record is corrupt.
C5_Witness ==
  /\ Answered("GET /backup", 404)
  /\ database.history = <<>>
  /\ Corrupt(database)

\* C6: a Restore on a non-empty history succeeds, removes exactly the last
\* entry and makes it the current record, which is the record the last
\* write not yet rolled back replaced: after k writes the N-th consecutive
\* restore makes current the record write k-N+1 replaced.
C6_RestoreWalksBack ==
  [][(RestoreStep /\ database.history # <<>>)
       => /\ Ok(resp'.status)
          /\ Len(database'.history) = Len(database.history) - 1
          /\ database'.history = SubSeq(database.history, 1, Len(database.history) - 1)
          /\ database'.current = AsRecord(database.history[Len(database.history)])
          /\ gens # <<>>
          /\ database'.current = gens[Len(gens)]]_vars

\* C6 witness: of two writes the second has just been rolled back, the
\* record it replaced is current again and the first backup is still there.
C6_Witness ==
  /\ Answered("GET /backup", 200)
  /\ database.current.data = "Updated"
  /\ Len(database.history) = 1
  /\ database.history[1].data = "Hello World"
  /\ gens = <<[data |-> "Hello World", integrity |-> generateHash("Hello World")]>>

\* C7: as long as no tamper was applied since startup or since the last
\* successful Restore, the current record's integrity is the hash of its data.
C7_HashBinding == ~tampered => ~Corrupt(database)

\* C7 witness: a restore has repaired a tampered record.
C7_Witness ==
  /\ ~tampered
  /\ Answered("GET /backup", 200)
  /\ database.current.data = "Updated"

\* C8 as stated: in every state the tamper operation overwrites the data,
\* keeps integrity and history, and leaves a record whose digest no longer
\* matches its payload.
C8_TamperBreaksBinding ==
  [][Tamper
       => /\ database'.current.data = "Tampered Data!"
          /\ database'.current.integrity = database.current.integrity
          /\ database'.history = database.history
          /\ Corrupt(database')]_vars

\* The invocation client c is left with when t has gone on to call fn.
Calling(t, fn) == Call(t.flow, fn, "", t.snap)

\* verifyData, resuming as t, reports no tampering and returns.
SaysIntact(c, t) ==
  /\ VerifyDataResume(c, t)
  /\ calls'[c] = calls[c] (-) SetToBag({t})

\* verifyData, resuming as t, reports tampering and calls restoreBackup.
SaysTampered(c, t) ==
  /\ VerifyDataResume(c, t)
  /\ BagIn(Calling(t, "restoreBackup"), calls'[c])
  /\ BagCardinality(calls'[c]) = BagCardinality(calls[c])

\* C9: a verifyData resuming with the fetched record classifies Intact
\* exactly when the asserted hash equals both the hash of the local copy the
\* click closed over and the hash of the served data; Intact calls no
\* restore and changes neither store nor local copy, Tampered calls
\* restoreBackup.
C9_VerifyVerdict ==
  [][\A c \in Clients : \A t \in BagToSet(calls[c]) :
       VerifyDataResume(c, t)
         => LET serverHash == t.got.body.integrity
                localHash == clientGenerateHash(t.arg)
                serverDataHash == generateHash(t.got.body.data)
            IN  /\ SaysIntact(c, t) # SaysTampered(c, t)
                /\ SaysIntact(c, t)
                     <=> (serverHash = localHash /\ serverHash = serverDataHash)
                /\ database' = database
                /\ data' = data]_vars

\* C9 witness: a verification found the local hash equal to the asserted
\* hash, the served data's not, and has called restoreBackup.
C9_Witness ==
  \E t \in BagToSet(calls["c1"]) :
    /\ t.fn = "restoreBackup"
    /\ t.at = "sent"
    /\ t.flow = "verifyData"
    /\ t.snap.valid
    /\ t.snap.db = database
    /\ clientGenerateHash(data["c1"]) = database.current.integrity
    /\ Corrupt(database)

\* The verification t belongs to fetched a corrupt record with a backup
\* behind it, and no other request has changed the store since.
RecoveryRunning(t) ==
  /\ t.flow = "verifyData"
  /\ t.snap.valid
  /\ Corrupt(t.snap.db)
  /\ t.snap.db.history # <<>>

\* C10: a Verify that fetched a corrupt record with a non-empty history
\* classifies Tampered; its restore succeeds, and when the flow completes
\* with no other request having changed the store in between, the current
\* record is the last history entry as it was before the Verify, the history
\* is one shorter, and the record is consistent again.
C10_VerifyRecovers ==
  [][\A c \in Clients : \A t \in BagToSet(calls[c]) :
       /\ (VerifyDataResume(c, t) /\ RecoveryRunning(t))
            => SaysTampered(c, t)
       /\ (ServeBackup(c, t) /\ RecoveryRunning(t))
            => /\ Ok(resp'.status)
               /\ database'.history =
                    SubSeq(t.snap.db.history, 1, Len(t.snap.db.history) - 1)
       /\ (RestoreBackupResume(c, t) /\ RecoveryRunning(t) /\ Ok(t.got.status))
            => BagIn(Calling(t, "getData"), calls'[c])
       /\ (GetDataResume(c, t) /\ RecoveryRunning(t))
            => LET before == t.snap.db.history
               IN  /\ database'.current = AsRecord(before[Len(before)])
                   /\ Len(database'.history) = Len(before) - 1
                   /\ ~Corrupt(database')]_vars

\* C10 witness: the restore of a verification that fetched a corrupt record
\* was served, and the refresh that ends the flow has its response.
C10_Witness ==
  \E t \in BagToSet(calls["c1"]) :
    /\ t.fn = "getData"
    /\ t.at = "answered"
    /\ RecoveryRunning(t)
    /\ database.current.data = "Hello World"
    /\ t.snap.db.current.data = "Tampered Data!"

\* The handler that invocation t of client c belongs to ends with this step.
FlowEnds(c, t) ==
  \/ GetDataResume(c, t)
  \/ UpdateDataResume(c, t) /\ ~Ok(t.got.status)
  \/ SaysIntact(c, t)
  \/ RestoreBackupResume(c, t) /\ ~Ok(t.got.status)

\* The store accepts a write of d carrying the right digest.
Accepts(db, d) == Ok(PostRoot(db, d, generateHash(d), clock).status)

\* C11 as stated: whenever a Verify that found the record tampered runs to
\* completion, the store is rolled back to a record whose integrity is the
\* hash of its data, and Writes are accepted again.
C11_VerifyAlwaysRecovers ==
  [][\A c \in Clients : \A t \in BagToSet(calls[c]) :
       (FlowEnds(c, t) /\ t.flow = "verifyData" /\ t.snap.valid /\ t.snap.corrupt)
         => /\ ~Corrupt(database')
            /\ \A d \in Strings : Accepts(database', d)]_vars

\* C12 as stated: Verify classifies Tampered only when the store's record
\* was modified by the tamper operation, never on a record fetched while the
\* current record is consistent and untampered.
C12_TamperedMeansTamper ==
  [][\A c \in Clients : \A t \in BagToSet(calls[c]) :
       (VerifyDataResume(c, t) /\ ~tampered /\ t.snap.valid /\ ~t.snap.corrupt)
         => SaysIntact(c, t)]_vars

\* C13: updateData sends the hash of the local copy it closed over, so its
\* write is never answered HashMismatch; a rejected write changes neither
\* store nor local copy and ends the handler without a refresh; an accepted
\* one calls getData, and when that refresh completes with no other request
\* having changed the store in between, the local copy is the store's
\* current data.
C13_SubmitThenSync ==
  [][\A c \in Clients : \A t \in BagToSet(calls[c]) :
       /\ ServePost(c, t)
            => /\ t.arg \in HashInputs
                    => clientGenerateHash(t.arg) = generateHash(t.arg)
               /\ Field(resp'.body, "error") # HashMismatch
               /\ (~Corrupt(database) /\ t.arg \in HashInputs) => Ok(resp'.status)
               /\ ~Ok(resp'.status) => database' = database
               /\ data' = data
       /\ UpdateDataResume(c, t)
            => /\ data' = data
               /\ IF Ok(t.got.status)
                    THEN /\ BagIn(Calling(t, "getData"), calls'[c])
                         /\ BagCardinality(calls'[c]) = BagCardinality(calls[c])
                  ELSE calls'[c] = calls[c] (-) SetToBag({t})
       /\ (GetDataResume(c, t) /\ t.flow = "updateData")
            => /\ calls'[c] = calls[c] (-) SetToBag({t})
               /\ t.snap.valid => data'[c] = database'.current.data]_vars

\* C13 witness: the client's write of what it typed was accepted, and the
\* refresh of that updateData has its response, the store untouched since.
C13_Witness ==
  \E t \in BagToSet(calls["c1"]) :
    /\ t.flow = "updateData"
    /\ t.fn = "getData"
    /\ t.at = "answered"
    /\ t.snap.valid
    /\ database.current.data = "Updated"
    /\ Len(database.history) = 1

\* C14 as stated: when the store's Restore succeeds, the local copy is
\* overwritten with the data of the record the response returns.
C14_LocalGetsRestored ==
  [][\A c \in Clients : \A t \in BagToSet(calls[c]) :
       (RestoreBackupResume(c, t) /\ Ok(t.got.status))
         => data'[c] = t.got.body.current.data]_vars

\* C15: when the store's Restore fails with NoBackupAvailable, the store is
\* left as it was, and restoreBackup resuming with that response leaves the
\* local copy alone and returns without a further request.
C15_RestoreFailureStops ==
  [][\A c \in Clients : \A t \in BagToSet(calls[c]) :
       /\ (ServeBackup(c, t) /\ database.history = <<>>)
            => /\ resp'.status = 404
               /\ Field(resp'.body, "error") = NoBackupAvailable
               /\ database' = database
               /\ data' = data
       /\ (RestoreBackupResume(c, t) /\ ~Ok(t.got.status))
            => /\ data' = data
               /\ database' = database
               /\ calls'[c] = calls[c] (-) SetToBag({t})]_vars

\* C15 witness: with no other caller around, the client's restore was
\* answered 404 and every handler has returned, the local copy as typed.
C15_Witness ==
  /\ Answered("GET /backup", 404)
  /\ others = 0
  /\ calls["c1"] = EmptyBag
  /\ data["c1"] = "Updated"

\* C16: whatever the interleaving of requests, a Read returns the current
\* record's data and integrity as one pair, and as long as no tamper is in
\* effect that pair satisfies integrity = Hash(data).
C16_ReadsConsistentPair ==
  [][ReadStep
       => /\ resp'.body = database.current
          /\ ~tampered => resp'.body.integrity = generateHash(resp'.body.data)]_vars

\* C16 witness: a Read was served after two accepted writes, with no tamper
\* in effect.
C16_Witness ==
  /\ Answered("GET /", 200)
  /\ ~tampered
  /\ Len(database.history) = 2
  /\ resp.body.data = "Updated"

\* C17: a Read never fails and changes nothing, also on a corrupt record: it
\* answers 200 with the current data and integrity as stored.
C17_ReadNeverFails ==
  [][ReadStep
       => /\ resp'.status = 200
          /\ resp'.body = database.current
          /\ database' = database]_vars

\* C17 witness: a Read has just returned a corrupt record.
C17_Witness ==
  /\ Answered("GET /", 200)
  /\ resp.body = database.current
  /\ Corrupt(database)

\* C18: every history entry's integrity is the hash of its data, also after
\* tampering, and right after a successful Restore the current record is
\* consistent.
C18_HistoryConsistent ==
  /\ \A i \in 1..Len(database.history) :
       database.history[i].integrity = generateHash(database.history[i].data)
  /\ Answered("GET /backup", 200) => ~Corrupt(database)

\* C18 witness: the current record is corrupt with two backups behind it.
C18_Witness ==
  /\ Corrupt(database)
  /\ tampered
  /\ Len(database.history) = 2

\* Successful writes minus successful restores so far.
NetWrites == Len(gens)

\* C19: the history length is the number of successful Writes minus the
\* number of successful Restores; rejected Writes, failed Restores, Reads and
\* tamper operations leave the history as it was.
C19_HistoryLength ==
  [][/\ Len(database'.history) = Len(gens')
     /\ (\/ ReadStep
         \/ Tamper
         \/ \E d \in Payloads, h \in Digests : WriteStep(d, h) /\ ~Ok(resp'.status)
         \/ RestoreStep /\ ~Ok(resp'.status))
          => database'.history = database.history]_vars

\* C19 witness: two successful writes, one successful restore, one entry.
C19_Witness ==
  /\ Answered("GET /backup", 200)
  /\ NetWrites = 1
  /\ Len(database.history) = 1
  /\ database.current.data = "Tampered Data!"
  /\ ~Corrupt(database)

\* C20 as stated: the restore of a Verify that fetched a tampered record is
\* served only while that record is still corrupt, so one tamper costs at
\* most one backup, however the Verify invocations overlap.
C20_OnePopPerTamper ==
  [][\A c \in Clients : \A t \in BagToSet(calls[c]) :
       (ServeBackup(c, t) /\ t.snap.corrupt /\ Ok(resp'.status))
         => Corrupt(database)]_vars

====
